---- MODULE Spec2Model ----
(***************************************************************************)
(* A model of src/bda_manager.py: the BedrockDataAutomationManager class   *)
(* (project provisioning, status query, manifest load, detail fetch) and   *)
(* the pipeline that main() drives (poll, load, reconcile, write).         *)
(*                                                                         *)
(* The services the program talks to (the Bedrock Data Automation control  *)
(* and runtime APIs, S3) are the environment: what they hold and answer is *)
(* drawn in Init, and the program's steps are deterministic given that.    *)
(***************************************************************************)
EXTENDS Naturals, Sequences, FiniteSets, TLC

VARIABLES
    \* ---- the control-plane service and the manager object (provisioning)
    blueprints,         \* self.blueprints, the list _list_blueprints returned
    advertisement_arn,  \* self.advertisement_arn
    projects,           \* the service's project list, in listing order
    next_arn,           \* the ARN the service gives the next project it creates
    calls,              \* history: one entry per create_bda_project call
    \* ---- main(): polling
    pc,                 \* position in main()
    answers,            \* history: the answers the runtime service gave, in order
    polls,              \* status queries issued so far
    sleeps,             \* time.sleep(10) calls so far
    response_bda_run_status,  \* the last status payload (main's local)
    events,             \* history: the external calls main() made, in order
    err,                \* the exception that ended main(), if any
    \* ---- main(): materialization
    store,              \* what S3 holds: the manifest and the unreadable locations
    exploded_job_metadata,      \* main's local, the expanded manifest
    custom_extracted_details,   \* main's local (a DataFrame)
    standard_extracted_details, \* main's local (a DataFrame)
    written             \* the tables handed to wr.s3.to_parquet, in order

vars == <<blueprints, advertisement_arn, projects, next_arn, calls,
          pc, answers, polls, sleeps, response_bda_run_status, events, err,
          store, exploded_job_metadata, custom_extracted_details,
          standard_extracted_details, written>>

provisionVars == <<blueprints, advertisement_arn, projects, next_arn, calls>>
pollVars == <<pc, answers, polls, sleeps, response_bda_run_status, events, err>>
tableVars == <<store, exploded_job_metadata, custom_extracted_details,
               standard_extracted_details, written>>

\* ---------------------------------------------------------------- bounds
MaxCalls == 3       \* create_bda_project calls in one behaviour
MaxPolls == 3       \* status queries main() issues in one behaviour
MaxSegments == 3    \* segments in a manifest, over all its rows
MaxRows == 3        \* rows of a manifest

\* ============================================================ provisioning

ProjectNames == {"BedrockDataAutomationProject", "OtherProject"}
BlueprintNames == {"Advertisement", "Invoice"}

\* Python's None / False results, kept in the shape of the values they stand
\* beside so that they can be compared with them.
None == 0
NotFound == [projectName |-> "<False>", projectArn |-> 0]

\* The sequences without repetition over the set S.
RECURSIVE Listings(_)
Listings(S) ==
    {<<>>} \cup UNION {{<<x>> \o l : l \in Listings(S \ {x})} : x \in S}

RECURSIVE first_match(_, _, _)
first_match(list, key, wanted) ==
    IF list = <<>> THEN <<>>
    ELSE IF list[1][key] = wanted THEN <<list[1]>>
    ELSE first_match(Tail(list), key, wanted)

\* _get_advertisement_arn: the ARN of the first blueprint named Advertisement.
get_advertisement_arn(bps) ==
    LET matched == first_match(bps, "blueprintName", "Advertisement")
    IN  IF matched # <<>> THEN matched[1].blueprintArn ELSE None

\* A broken lookup: reports every name as absent.
project_exists_never(listing, project_name) == NotFound

\* _project_exists: the first listed project of that name, else False.
project_exists(listing, project_name) ==
    LET matched == first_match(listing, "projectName", project_name)
    IN  IF matched # <<>> THEN matched[1] ELSE NotFound

\* The service's create_data_automation_project: a new project with a fresh ARN.
create_data_automation_project(listing, project_name, arn) ==
    Append(listing, [projectName |-> project_name, projectArn |-> arn])

\* create_bda_project(project_name=name): one whole call.
create_bda_project(name) ==
    /\ Len(calls) < MaxCalls
    /\ LET found == project_exists(projects, name)
       IN  IF found # NotFound
           THEN \* line 60-62: skip creation, return the listed project
                /\ calls' = Append(calls,
                       [name |-> name, outcome |-> "existing", created |-> FALSE,
                        arn |-> found.projectArn,
                        before |-> projects, after |-> projects])
                /\ UNCHANGED <<projects, next_arn>>
           ELSE IF advertisement_arn = None
           THEN \* line 64-65: raise ValueError
                /\ calls' = Append(calls,
                       [name |-> name, outcome |-> "ValueError", created |-> FALSE,
                        arn |-> None,
                        before |-> projects, after |-> projects])
                /\ UNCHANGED <<projects, next_arn>>
           ELSE \* line 67-133: the create call and its response
                /\ projects' = create_data_automation_project(projects, name, next_arn)
                /\ next_arn' = next_arn + 1
                /\ calls' = Append(calls,
                       [name |-> name, outcome |-> "created", created |-> TRUE,
                        arn |-> next_arn,
                        before |-> projects, after |-> projects'])
    /\ UNCHANGED <<blueprints, advertisement_arn>>
    /\ UNCHANGED <<pollVars, tableVars>>

\* ================================================================ polling

\* The status values of get_data_automation_status. In the words of the
\* specification: Created is SUBMITTED, InProgress is IN_PROGRESS, Success is
\* SUCCEEDED, ServiceError and ClientError are FAILED.
Statuses == {"Created", "InProgress", "Success", "ServiceError", "ClientError"}
Terminal == {"Success", "ServiceError", "ClientError"}

\* One answer of the runtime service to a status query: a payload with a
\* status and, possibly, outputConfiguration.s3Uri; or a transport error.
TransportError == [status |-> "<raises>", out |-> FALSE, raises |-> TRUE]
Payloads == {[status |-> s, out |-> o, raises |-> FALSE] : s \in Statuses, o \in BOOLEAN}
Answers == Payloads \cup {TransportError}
NoResponse == [status |-> "<none>", out |-> FALSE, raises |-> FALSE]

\* get_bda_inference_status (lines 165-172) hands back what the service answers.
get_bda_inference_status(answer) == answer

\* A broken loop test: keeps polling until the job has succeeded.
while_not_success(resp) == resp.status # "Success"

\* Line 264: the while condition.
while_condition(resp) == resp.status = "InProgress"

\* A broken handler: swallows the transport error and goes on.
after_query_swallow(answer) == "loop"

\* Where main() is after a status query: an exception leaves main().
after_query(answer) == IF answer.raises THEN "raised" ELSE "loop"

\* A broken guard: reads the manifest whatever the payload holds.
has_output_always(resp) == TRUE

\* Line 276-277: output_conf and "s3Uri" in output_conf.
has_output(resp) == resp.out

\* One status query, answered by the service with any of its answers.
StatusQuery(answer) ==
    /\ polls' = polls + 1
    /\ answers' = Append(answers, answer)
    /\ pc' = after_query(answer)
    /\ IF answer.raises
       THEN /\ err' = "StatusQueryFailed"
            /\ UNCHANGED response_bda_run_status
       ELSE /\ response_bda_run_status' = get_bda_inference_status(answer)
            /\ UNCHANGED err

\* Lines 258-261: the initial status retrieval.
InitialStatus ==
    /\ pc = "status"
    /\ \E answer \in Answers : StatusQuery(answer)
    /\ events' = Append(events, "query")
    /\ UNCHANGED sleeps
    /\ UNCHANGED <<provisionVars, tableVars>>

\* Lines 264-269: one turn of the loop, the sleep and the next query.
LoopIteration ==
    /\ pc = "loop"
    /\ while_condition(response_bda_run_status)
    /\ polls < MaxPolls
    /\ sleeps' = sleeps + 1
    /\ \E answer \in Answers : StatusQuery(answer)
    /\ events' = events \o <<"sleep", "query">>
    /\ UNCHANGED <<provisionVars, tableVars>>

\* Lines 264, 271-277: the loop ends; the payload decides whether results are read.
LoopExit ==
    /\ pc = "loop"
    /\ ~ while_condition(response_bda_run_status)
    /\ pc' = IF has_output(response_bda_run_status) THEN "load" ELSE "done"
    /\ UNCHANGED <<answers, polls, sleeps, response_bda_run_status, events, err>>
    /\ UNCHANGED <<provisionVars, tableVars>>

\* ============================================================= DataFrames
\* A DataFrame is [cols, rows]: the set of its column names and the sequence
\* of its rows, each a function from cols to cells. A cell that stands for a
\* path, a nested structure or a leaf value of a detail document is a record
\* [tag, r, s]: what it is, and the manifest row r and segment s it belongs to.

cell(tag, r, s) == [tag |-> tag, r |-> r, s |-> s]
NaN == cell("NaN", 0, 0)
EmptyFrame == [cols |-> {}, rows |-> <<>>]      \* pd.DataFrame()

reindex(row, cols) == [c \in cols |-> IF c \in DOMAIN row THEN row[c] ELSE NaN]

\* df[col] of a column that exists.
column(df, col) == [i \in 1..Len(df.rows) |-> df.rows[i][col]]

\* df[col] = series, the series indexed like df.
set_column(df, col, series) ==
    [cols |-> df.cols \cup {col},
     rows |-> [i \in 1..Len(df.rows) |-> (col :> series[i]) @@ df.rows[i]]]

\* pd.concat([a, b]): the rows of a, then those of b, over the union of the columns.
concat(a, b) ==
    LET cols == a.cols \cup b.cols
    IN  [cols |-> cols,
         rows |-> [i \in 1..Len(a.rows) |-> reindex(a.rows[i], cols)]
                  \o [i \in 1..Len(b.rows) |-> reindex(b.rows[i], cols)]]

RECURSIVE concat_all(_)
concat_all(dfs) ==
    IF dfs = <<>> THEN EmptyFrame
    ELSE IF Len(dfs) = 1 THEN dfs[1]
    ELSE concat(dfs[1], concat_all(Tail(dfs)))

\* pd.concat([a, b], axis=1) of two frames with the same index.
concat_axis1(a, b) ==
    [cols |-> a.cols \cup b.cols,
     rows |-> [i \in 1..Len(a.rows) |-> a.rows[i] @@ b.rows[i]]]

\* pd.json_normalize of a series of dicts: one row per entry, a column per key
\* that some entry has; an entry that is no dict (NaN) gives an all-absent row.
json_normalize(dicts) ==
    LET keys(entry) == IF entry = NaN THEN {} ELSE DOMAIN entry
        cols == UNION {keys(dicts[i]) : i \in 1..Len(dicts)}
    IN  [cols |-> cols,
         rows |-> [i \in 1..Len(dicts) |->
                     IF dicts[i] = NaN THEN [c \in cols |-> NaN]
                     ELSE reindex(dicts[i], cols)]]

\* The dict a cell of a detail document stands for: the fields main() reads of
\* the image, video and matched_blueprint structures. NaN is no dict.
nested(c) ==
    LET r == c.r
        s == c.s
    IN  CASE c.tag = "image" ->
               [summary |-> cell("summary", r, s),
                text_words |-> cell("text_words", r, s),
                text_lines |-> cell("text_lines", r, s)]
          [] c.tag = "video" ->
               ("summary" :> cell("summary", r, s))
               @@ ("transcript.representation.text" :> cell("transcript", r, s))
          [] c.tag = "matched_blueprint" ->
               [name |-> cell("name", r, s), arn |-> cell("arn", r, s)]
          [] OTHER -> NaN

\* ================================================================ S3 store

\* The modality tags: the closed set of the service, and one value outside it.
Modalities == {"DOCUMENT", "IMAGE", "VIDEO", "AUDIO", "TEXT"}

standard_path(r, s) == cell("standard", r, s)
custom_path(r, s) == cell("custom", r, s)

RECURSIVE Sum(_)
Sum(c) == IF c = <<>> THEN 0 ELSE c[1] + Sum(Tail(c))

\* The segment counts of a manifest's rows; a row may have no segment at all.
Compositions ==
    {c \in UNION {[1..k -> 0..MaxSegments] : k \in 1..MaxRows} :
        Sum(c) <= MaxSegments}

\* The manifest document the service wrote: row r has modality mods[r] and
\* c[r] segments; segment s of row r has a custom output iff matched[r][s].
\* A segment without a custom match has no custom_output_path key.
segment_entry(r, s, has_custom) ==
    IF has_custom
    THEN [standard_output_path |-> standard_path(r, s),
          custom_output_path |-> custom_path(r, s)]
    ELSE [standard_output_path |-> standard_path(r, s)]

manifest_document(c, mods, matched) ==
    [r \in 1..Len(c) |->
        [semantic_modality |-> mods[r],
         output_metadata |->
            [asset_id |-> r,
             segment_metadata |->
                [s \in 1..c[r] |-> segment_entry(r, s, matched[r][s])]]]]

\* The ways segments of rows with these segment counts can be matched.
RECURSIVE Matchings(_)
Matchings(c) ==
    IF c = <<>> THEN {<<>>}
    ELSE {<<f>> \o rest : f \in [1..c[1] -> BOOLEAN], rest \in Matchings(Tail(c))}

\* The detail locations a manifest names.
Locations(manifest) ==
    UNION {{e[k] : k \in DOMAIN e} :
           e \in UNION {{manifest[r].output_metadata.segment_metadata[s] :
                           s \in 1..Len(manifest[r].output_metadata.segment_metadata)} :
                        r \in 1..Len(manifest)}}

\* The sets of detail locations that cannot be read: none, or any one of them.
Unreadables(manifest) == {{}} \cup {{l} : l \in Locations(manifest)}

\* The structure a standard detail document holds for a segment of that modality.
modality_key(modality) ==
    CASE modality = "IMAGE" -> {"image"}
      [] modality = "VIDEO" -> {"video"}
      [] modality = "DOCUMENT" -> {"document"}
      [] modality = "AUDIO" -> {"audio"}
      [] OTHER -> {}

\* The detail document at a location, as wr.s3.read_json gives it: one record.
detail_document(manifest, loc) ==
    LET r == loc.r
        s == loc.s
    IN  IF loc.tag = "custom"
        THEN [matched_blueprint |-> cell("matched_blueprint", r, s),
              inference_result |-> cell("inference_result", r, s)]
        ELSE [k \in {"metadata"} \cup modality_key(manifest[r].semantic_modality) |->
                 cell(k, r, s)]

\* =============================================================== ResultLoader

\* DataFrame.explode(col).reset_index(drop=True), on the rows: a row whose cell
\* is a list of n >= 1 entries becomes n rows, one per entry, in order; a row
\* whose list is empty is kept as one row, with NaN in the cell.
RECURSIVE explode(_, _)
explode(rows, col) ==
    IF rows = <<>> THEN <<>>
    ELSE (IF Len(rows[1][col]) = 0
          THEN <<(col :> NaN) @@ rows[1]>>
          ELSE [k \in 1..Len(rows[1][col]) |-> (col :> rows[1][col][k]) @@ rows[1]])
         \o explode(Tail(rows), col)

\* retrieve_inference_results (lines 203-212).
retrieve_inference_results(manifest) ==
    LET df_invocation_metadata ==
            [cols |-> {"semantic_modality", "output_metadata"}, rows |-> manifest]
        flattened ==
            concat_axis1(df_invocation_metadata,
                         json_normalize(column(df_invocation_metadata, "output_metadata")))
        df_exploded_output ==
            [cols |-> flattened.cols, rows |-> explode(flattened.rows, "segment_metadata")]
    IN  concat_axis1(df_exploded_output,
                     json_normalize(column(df_exploded_output, "segment_metadata")))

\* The (index, location) items of final_df[path_column].dropna().items().
RECURSIVE dropna_items(_, _)
dropna_items(series, idx) ==
    IF series = <<>> THEN <<>>
    ELSE (IF series[1] = NaN THEN <<>> ELSE <<[idx |-> idx, s3_uri |-> series[1]]>>)
         \o dropna_items(Tail(series), idx + 1)

\* Lines 181-189: the frames read, one per readable location, each with its
\* source_index and source_file; an unreadable location is printed and skipped.
RECURSIVE read_each(_, _)
read_each(items, st) ==
    IF items = <<>> THEN <<>>
    ELSE (IF items[1].s3_uri \in st.unreadable
          THEN <<>>
          ELSE <<[cols |-> DOMAIN detail_document(st.manifest, items[1].s3_uri)
                           \cup {"source_index", "source_file"},
                  rows |-> <<("source_index" :> cell("index", items[1].idx, 0))
                             @@ ("source_file" :> items[1].s3_uri)
                             @@ detail_document(st.manifest, items[1].s3_uri)>>]>>)
         \o read_each(Tail(items), st)

\* read_custom_out_path_and_load (lines 179-194).
read_custom_out_path_and_load(final_df, path_column, st) ==
    concat_all(read_each(dropna_items(column(final_df, path_column), 0), st))

\* ========================================================= SchemaReconciler

\* Lines 288-290: blueprintName from the matched_blueprint column.
\* [raised, df]: a missing column is a KeyError.
blueprint_name(custom) ==
    IF "matched_blueprint" \notin custom.cols
    THEN [raised |-> TRUE, df |-> custom]
    ELSE LET normalized ==
                 json_normalize([i \in 1..Len(custom.rows) |->
                                    nested(custom.rows[i]["matched_blueprint"])])
         IN  IF "name" \notin normalized.cols
             THEN [raised |-> TRUE, df |-> custom]
             ELSE [raised |-> FALSE,
                   df |-> set_column(custom, "blueprintName", column(normalized, "name"))]

\* The columns of source that main() copies into the standard frame.
RECURSIVE copy_columns(_, _, _)
copy_columns(df, source, pairs) ==
    IF pairs = <<>> THEN df
    ELSE copy_columns(set_column(df, pairs[1][1], column(source, pairs[1][2])),
                      source, Tail(pairs))

\* One branch of lines 295-306: normalise the modality's structure and copy
\* the named columns. A missing column is a KeyError.
extract(standard, key, pairs) ==
    IF key \notin standard.cols
    THEN [raised |-> TRUE, df |-> standard]
    ELSE LET normalized ==
                 json_normalize([i \in 1..Len(standard.rows) |->
                                    nested(standard.rows[i][key])])
         IN  IF \E k \in 1..Len(pairs) : pairs[k][2] \notin normalized.cols
             THEN [raised |-> TRUE, df |-> standard]
             ELSE [raised |-> FALSE, df |-> copy_columns(standard, normalized, pairs)]

\* Lines 294-306: the branch on modality_extracted.
modality_branch(standard, modality_extracted) ==
    IF modality_extracted = "IMAGE"
    THEN extract(standard, "image",
                 << <<"summary", "summary">>,
                    <<"extracted_text_words", "text_words">>,
                    <<"extracted_text_lines", "text_lines">> >>)
    ELSE IF modality_extracted = "VIDEO"
    THEN extract(standard, "video",
                 << <<"summary", "summary">>,
                    <<"extracted_transcript", "transcript.representation.text">> >>)
    ELSE [raised |-> FALSE, df |-> standard]

\* Line 281: exploded_job_metadata["semantic_modality"][0].
modality_extracted_of(df) == df.rows[1]["semantic_modality"]

\* One "fetch" event per location read_custom_out_path_and_load tries to read.
fetch_events(final_df, path_column) ==
    [i \in 1..Len(dropna_items(column(final_df, path_column), 0)) |-> "fetch"]

\* Lines 278-281: load and expand the manifest.
RetrieveInferenceResults ==
    /\ pc = "load"
    /\ exploded_job_metadata' = retrieve_inference_results(store.manifest)
    /\ events' = Append(events, "load")
    /\ pc' = "custom"
    /\ UNCHANGED <<answers, polls, sleeps, response_bda_run_status, err>>
    /\ UNCHANGED <<store, custom_extracted_details, standard_extracted_details, written>>
    /\ UNCHANGED provisionVars

\* Lines 283-290: the custom detail documents, when the manifest has the column.
ReadCustom ==
    /\ pc = "custom"
    /\ IF "custom_output_path" \in exploded_job_metadata.cols
       THEN LET loaded == read_custom_out_path_and_load(
                              exploded_job_metadata, "custom_output_path", store)
                named == blueprint_name(loaded)
            IN  /\ events' = events \o fetch_events(exploded_job_metadata,
                                                    "custom_output_path")
                /\ custom_extracted_details' = named.df
                /\ pc' = IF named.raised THEN "raised" ELSE "standard"
                /\ err' = IF named.raised THEN "KeyError" ELSE err
       ELSE /\ custom_extracted_details' = EmptyFrame
            /\ pc' = "standard"
            /\ UNCHANGED <<events, err>>
    /\ UNCHANGED <<answers, polls, sleeps, response_bda_run_status>>
    /\ UNCHANGED <<store, exploded_job_metadata, standard_extracted_details, written>>
    /\ UNCHANGED provisionVars

\* Lines 292-293: the standard detail documents. final_df[path_column]
\* (line 181) of a frame without the column is a KeyError.
ReadStandard ==
    /\ pc = "standard"
    /\ IF "standard_output_path" \in exploded_job_metadata.cols
       THEN /\ standard_extracted_details' =
                   read_custom_out_path_and_load(exploded_job_metadata,
                                                 "standard_output_path", store)
            /\ events' = events \o fetch_events(exploded_job_metadata,
                                                "standard_output_path")
            /\ pc' = "enrich"
            /\ UNCHANGED err
       ELSE /\ pc' = "raised"
            /\ err' = "KeyError"
            /\ UNCHANGED <<standard_extracted_details, events>>
    /\ UNCHANGED <<answers, polls, sleeps, response_bda_run_status>>
    /\ UNCHANGED <<store, exploded_job_metadata, custom_extracted_details, written>>
    /\ UNCHANGED provisionVars

\* Lines 294-306: the modality-specific columns.
Enrich ==
    /\ pc = "enrich"
    /\ LET enriched == modality_branch(standard_extracted_details,
                                       modality_extracted_of(exploded_job_metadata))
       IN  /\ standard_extracted_details' = enriched.df
           /\ pc' = IF enriched.raised THEN "raised" ELSE "write"
           /\ err' = IF enriched.raised THEN "KeyError" ELSE err
    /\ UNCHANGED <<answers, polls, sleeps, response_bda_run_status, events>>
    /\ UNCHANGED <<store, exploded_job_metadata, custom_extracted_details, written>>
    /\ UNCHANGED provisionVars

\* Lines 308-319: the union of the two frames, written to the sink.
ConcatAndWrite ==
    /\ pc = "write"
    /\ written' = Append(written, concat(custom_extracted_details,
                                         standard_extracted_details))
    /\ events' = Append(events, "write")
    /\ pc' = "done"
    /\ UNCHANGED <<answers, polls, sleeps, response_bda_run_status, err>>
    /\ UNCHANGED <<store, exploded_job_metadata, custom_extracted_details,
                   standard_extracted_details>>
    /\ UNCHANGED provisionVars

\* ========================================================== specifications

\* The manager as constructed, with no call made yet.
ProvisionInit ==
    /\ blueprints \in
          {[i \in 1..Len(l) |-> [blueprintName |-> l[i], blueprintArn |-> 100 + i]] :
              l \in Listings(BlueprintNames)}
    /\ advertisement_arn = get_advertisement_arn(blueprints)
    /\ projects \in
          {[i \in 1..Len(l) |-> [projectName |-> l[i], projectArn |-> i]] :
              l \in Listings(ProjectNames)}
    /\ next_arn = Len(projects) + 1
    /\ calls = <<>>

\* A manager whose project exists: what main() holds once the job is submitted.
ProvisionDone ==
    /\ blueprints = <<[blueprintName |-> "Advertisement", blueprintArn |-> 101]>>
    /\ advertisement_arn = 101
    /\ projects = <<[projectName |-> "BedrockDataAutomationProject", projectArn |-> 1]>>
    /\ next_arn = 2
    /\ calls = <<>>

NoTables ==
    /\ exploded_job_metadata = EmptyFrame
    /\ custom_extracted_details = EmptyFrame
    /\ standard_extracted_details = EmptyFrame
    /\ written = <<>>

\* main() after run_bda_inference returned (line 256), before the first query.
Submitted ==
    /\ pc = "status"
    /\ answers = <<>>
    /\ polls = 0
    /\ sleeps = 0
    /\ response_bda_run_status = NoResponse
    /\ events = <<>>
    /\ err = "none"

\* main() at line 278: one query, answered Success with an output location.
Succeeded ==
    /\ pc = "load"
    /\ answers = <<[status |-> "Success", out |-> TRUE, raises |-> FALSE]>>
    /\ polls = 1
    /\ sleeps = 0
    /\ response_bda_run_status = answers[1]
    /\ events = <<"query">>
    /\ err = "none"

\* What S3 holds: a manifest of these segment counts, with any modality tags
\* and any custom matches; readable throughout, or with one unreadable location.
StoreHolds(c, may_fail) ==
    \E mods \in [1..Len(c) -> Modalities], matched \in Matchings(c) :
       LET m == manifest_document(c, mods, matched)
       IN  \E u \in (IF may_fail THEN Unreadables(m) ELSE {{}}) :
              store = [manifest |-> m, unreadable |-> u]

\* The whole of main() from the first status query on, over every sequence of
\* answers and the manifests of one row with one segment or none.
Init ==
    /\ ProvisionDone
    /\ Submitted
    /\ \E c \in {<<0>>, <<1>>} : StoreHolds(c, TRUE)
    /\ NoTables

Materialize ==
    \/ RetrieveInferenceResults
    \/ ReadCustom
    \/ ReadStandard
    \/ Enrich
    \/ ConcatAndWrite

Next ==
    \/ InitialStatus
    \/ LoopIteration
    \/ LoopExit
    \/ Materialize

Spec == Init /\ [][Next]_vars

\* main() over every sequence of answers and one manifest (an IMAGE segment
\* with a custom output, all readable). main() is the only thread and runs on:
\* every step that can be taken is taken.
PollInit ==
    /\ ProvisionDone
    /\ Submitted
    /\ store = [manifest |-> manifest_document(<<1>>, <<"IMAGE">>, << <<TRUE>> >>),
                unreadable |-> {}]
    /\ NoTables

FairSpec == PollInit /\ [][Next]_vars /\ WF_vars(Next)

\* Materialization alone, over every manifest of up to MaxRows rows and
\* MaxSegments segments, readable throughout or with one unreadable detail
\* location.
ReconcileInit ==
    /\ ProvisionDone
    /\ Succeeded
    /\ \E c \in Compositions : StoreHolds(c, TRUE)
    /\ NoTables

SpecReconcile == ReconcileInit /\ [][Materialize]_vars

\* Materialization alone, over every manifest of up to MaxRows rows and
\* MaxSegments segments whose detail locations can all be read.
ReadableInit ==
    /\ ProvisionDone
    /\ Succeeded
    /\ \E c \in Compositions : StoreHolds(c, FALSE)
    /\ NoTables

SpecReadable == ReadableInit /\ [][Materialize]_vars

\* The manager's create_bda_project, called any number of times with any names.
ProvisionOnlyInit ==
    /\ ProvisionInit
    /\ pc = "idle"
    /\ answers = <<>>
    /\ polls = 0
    /\ sleeps = 0
    /\ response_bda_run_status = NoResponse
    /\ events = <<>>
    /\ err = "none"
    /\ store = [manifest |-> manifest_document(<<1>>, <<"IMAGE">>, << <<FALSE>> >>),
                unreadable |-> {}]
    /\ NoTables

NextProvision == \E name \in ProjectNames : create_bda_project(name)

SpecProvision == ProvisionOnlyInit /\ [][NextProvision]_vars

\* ================================================================== claims

Last(seq) == seq[Len(seq)]
Positions(seq, S) == {i \in 1..Len(seq) : seq[i] \in S}
MaterializationEvents == {"load", "fetch", "write"}
PollerReturned == pc \notin {"status", "loop"}

\* C1: the pipeline never leaves the polling loop while the last observed
\* status is still running, Created (SUBMITTED) as well as InProgress: once
\* main() is past the loop without an exception, the last payload is terminal.
C1_LeavesLoopOnlyOnTerminal ==
    (PollerReturned /\ pc # "raised") => response_bda_run_status.status \in Terminal

\* The answers so far are n InProgress payloads followed by one terminal payload.
InProgressThenTerminal ==
    /\ answers # <<>>
    /\ \A i \in 1..(Len(answers) - 1) :
          ~ answers[i].raises /\ answers[i].status = "InProgress"
    /\ ~ Last(answers).raises
    /\ Last(answers).status \in Terminal

TerminalSeen == \E i \in 1..Len(answers) : ~ answers[i].raises /\ answers[i].status \in Terminal

\* C2: when the service answers n InProgress payloads and then a terminal one,
\* the poller has slept n times and queried n+1 times, holds exactly the
\* terminal payload, issues no query and no sleep after a terminal answer, and
\* returns.
C2_PollerTermination ==
    /\ [](InProgressThenTerminal =>
            /\ polls = Len(answers)
            /\ sleeps = Len(answers) - 1
            /\ Cardinality(Positions(events, {"sleep"})) = Len(answers) - 1
            /\ Cardinality(Positions(events, {"query"})) = Len(answers)
            /\ response_bda_run_status = Last(answers))
    /\ [][TerminalSeen => answers' = answers /\ polls' = polls /\ sleeps' = sleeps]_vars
    /\ (InProgressThenTerminal ~> (PollerReturned /\ response_bda_run_status = Last(answers)))

\* [InProgress, InProgress, Success]: two delayed re-polls, the Success payload.
C2_Witness ==
    /\ Len(answers) = 3
    /\ answers[1].status = "InProgress" /\ answers[2].status = "InProgress"
    /\ answers[3].status = "Success"
    /\ PollerReturned
    /\ sleeps = 2 /\ polls = 3
    /\ response_bda_run_status = answers[3]

\* C3: for every project name at most one create call is issued; once a call
\* for a name found or created the project, every later call for that name
\* creates nothing, leaves the project list as it was and returns the same ARN.
C3_ProvisioningIdempotent ==
    /\ \A n \in ProjectNames :
          Cardinality({i \in 1..Len(calls) : calls[i].name = n /\ calls[i].created}) <= 1
    /\ \A i, j \in 1..Len(calls) :
          (i < j /\ calls[i].name = calls[j].name /\ calls[i].outcome # "ValueError") =>
             /\ ~ calls[j].created
             /\ calls[j].after = calls[j].before
             /\ calls[j].outcome = "existing"
             /\ calls[j].arn = calls[i].arn
    /\ \A i \in 1..Len(calls) :
          /\ calls[i].created =>
                \A k \in 1..Len(calls[i].before) :
                    calls[i].before[k].projectName # calls[i].name
          /\ ~ calls[i].created => calls[i].after = calls[i].before

\* Two calls with one name: the first creates, the second returns the same ARN.
C3_Witness ==
    /\ Len(calls) >= 2
    /\ calls[1].created
    /\ calls[2].name = calls[1].name
    /\ calls[2].outcome = "existing"
    /\ calls[2].arn = calls[1].arn

\* The table main() wrote.
final_result_bda_pd == written[1]
Finished == pc \in {"done", "raised"}
SegmentsOf(manifest) ==
    UNION {{<<r, s>> : s \in 1..Len(manifest[r].output_metadata.segment_metadata)} :
           r \in 1..Len(manifest)}
RowsFrom(df, loc) ==
    {i \in 1..Len(df.rows) : "source_file" \in df.cols /\ df.rows[i]["source_file"] = loc}

\* C4: when detail fetches fail the pipeline does not abort and the final
\* table still has one row for every detail location of the manifest.
C4_PartialFailureKeepsRows ==
    Finished =>
       /\ pc = "done"
       /\ Len(written) = 1
       /\ Len(final_result_bda_pd.rows) = Cardinality(Locations(store.manifest))

EnrichedAs(df, i, modality, r, s) ==
    /\ modality = "IMAGE" =>
          /\ {"summary", "extracted_text_words", "extracted_text_lines"} \subseteq df.cols
          /\ df.rows[i]["summary"] = cell("summary", r, s)
          /\ df.rows[i]["extracted_text_words"] = cell("text_words", r, s)
          /\ df.rows[i]["extracted_text_lines"] = cell("text_lines", r, s)
    /\ modality = "VIDEO" =>
          /\ {"summary", "extracted_transcript"} \subseteq df.cols
          /\ df.rows[i]["summary"] = cell("summary", r, s)
          /\ df.rows[i]["extracted_transcript"] = cell("transcript", r, s)

\* C5: in the final table every STANDARD record carries the extraction of its
\* own modality tag, read from its own detail document.
C5_ExtractionByOwnModality ==
    (pc = "done" /\ Len(written) = 1) =>
       \A i \in 1..Len(final_result_bda_pd.rows) :
          LET loc == final_result_bda_pd.rows[i]["source_file"]
          IN  loc.tag = "standard" =>
                 EnrichedAs(final_result_bda_pd, i,
                            store.manifest[loc.r].semantic_modality, loc.r, loc.s)

\* C6: when every detail fetch succeeds the pipeline writes one table that
\* holds exactly one row for each detail location of the manifest (one CUSTOM
\* row per segment with a custom output, one STANDARD row per segment) and no
\* other row.
C6_UnionComplete ==
    (Finished /\ store.unreadable = {}) =>
       /\ pc = "done"
       /\ Len(written) = 1
       /\ \A loc \in Locations(store.manifest) :
             Cardinality(RowsFrom(final_result_bda_pd, loc)) = 1
       /\ Len(final_result_bda_pd.rows) = Cardinality(Locations(store.manifest))
       /\ Cardinality({i \in 1..Len(final_result_bda_pd.rows) :
                          final_result_bda_pd.rows[i]["source_file"].tag = "standard"})
             = Cardinality(SegmentsOf(store.manifest))

\* C7: the expanded manifest has one row per segment, as many rows as the
\* segment counts of the manifest rows add up to, and each carries its
\* segment's metadata together with the columns of the manifest row it came from.
C7_ManifestExpansion ==
    (pc \notin {"status", "loop", "load", "idle"}) =>
       LET rows == exploded_job_metadata.rows
           m == store.manifest
       IN  /\ Len(rows) = Cardinality(SegmentsOf(m))
           /\ \A seg \in SegmentsOf(m) :
                 Cardinality({i \in 1..Len(rows) :
                    rows[i]["standard_output_path"] = standard_path(seg[1], seg[2])}) = 1
           /\ \A i \in 1..Len(rows) :
                 LET r == rows[i]["standard_output_path"].r
                     s == rows[i]["standard_output_path"].s
                     entry == m[r].output_metadata.segment_metadata[s]
                 IN  /\ rows[i]["semantic_modality"] = m[r].semantic_modality
                     /\ rows[i]["asset_id"] = r
                     /\ rows[i]["output_metadata"] = m[r].output_metadata
                     /\ rows[i]["segment_metadata"] = entry
                     /\ \A k \in DOMAIN entry : rows[i][k] = entry[k]

\* C8: a transport error of a status query ends main(): it is the last answer
\* and the last call main() made, no delay, load, fetch or write follows it,
\* and the error reaches the caller.
C8_TransportErrorNotRetried ==
    \A i \in 1..Len(answers) :
       answers[i].raises =>
          /\ i = Len(answers)
          /\ pc = "raised"
          /\ err = "StatusQueryFailed"
          /\ polls = i
          /\ Last(events) = "query"
          /\ Cardinality(Positions(events, {"query"})) = i
          /\ Cardinality(Positions(events, {"sleep"})) = i - 1
          /\ Positions(events, MaterializationEvents) = {}
          /\ written = <<>>

\* The second status query, made inside the loop, raises.
C8_Witness ==
    /\ Len(answers) = 2
    /\ answers[2].raises
    /\ pc = "raised"
    /\ sleeps = 1

PassThroughModalities == {"DOCUMENT", "AUDIO", "TEXT"}
ModalityColumns ==
    {"summary", "extracted_text_words", "extracted_text_lines", "extracted_transcript"}

\* C9: for a manifest whose modality tags are DOCUMENT, AUDIO or unrecognized
\* the pipeline does not abort, every STANDARD record read is in the final
\* table, and the table has no modality-specific column.
C9_PassThrough ==
    (Finished /\ \A r \in 1..Len(store.manifest) :
                    store.manifest[r].semantic_modality \in PassThroughModalities) =>
       /\ pc = "done"
       /\ Len(written) = 1
       /\ \A seg \in SegmentsOf(store.manifest) :
             standard_path(seg[1], seg[2]) \notin store.unreadable =>
                Cardinality(RowsFrom(final_result_bda_pd,
                                     standard_path(seg[1], seg[2]))) = 1
       /\ final_result_bda_pd.cols \cap ModalityColumns = {}

\* C10: load, fetches and write happen only once the poller has returned, after
\* every query and sleep, in the order load, fetch, write, with at most one
\* load and one write; and none of them happens unless the last status payload
\* carries an output location.
C10_MaterializationOrderedAndGuarded ==
    /\ Positions(events, MaterializationEvents) # {} =>
          /\ PollerReturned
          /\ response_bda_run_status.out
          /\ events[Len(answers) + sleeps + 1] = "load"
    /\ \A i, j \in 1..Len(events) :
          i < j =>
             /\ events[i] \in MaterializationEvents => events[j] \in MaterializationEvents
             /\ events[i] \in {"fetch", "write"} => events[j] # "load"
             /\ events[i] = "write" => FALSE
    /\ Cardinality(Positions(events, {"write"})) = Len(written)
    /\ Len(written) <= 1
    /\ (PollerReturned /\ ~ response_bda_run_status.out) =>
          /\ pc \in {"done", "raised"}
          /\ Positions(events, MaterializationEvents) = {}
          /\ written = <<>>

\* A run that polled twice, loaded, fetched two documents and wrote.
C10_Witness ==
    /\ pc = "done"
    /\ events = <<"query", "sleep", "query", "load", "fetch", "fetch", "write">>
    /\ Len(written) = 1

====
